---- MODULE Spec2Model ----
(***************************************************************************)
(* A model of calendar_mcp_server.py: the credential store and refresher   *)
(* (get_credentials), the date resolver (parse_natural_language_date,      *)
(* get_date_range) and the four caller-facing operations                   *)
(* (get_events_resource, list_events, create_event, update_event) run      *)
(* against an opaque calendar backend.                                     *)
(*                                                                         *)
(* Conventions.  Python's None is the string "None" for string-valued      *)
(* fields; an optional object is a sequence of length 0 or 1.  An access   *)
(* token is modelled by the instant at which the token endpoint stops      *)
(* honouring it, so a token carries its real expiry even where the client  *)
(* does not record one.                                                    *)
(***************************************************************************)
EXTENDS Integers, Sequences, FiniteSets, TLC

VARIABLES
    now,                \* wall clock (utcnow)
    tokenFile,          \* TOKEN_FILE: <<>> when absent, else <<authorized-user info>>
    credentialsFile,    \* CREDENTIALS_FILE exists (the client-secret configuration)
    calendar,           \* the backend's events of calendar 'primary': id -> event
    pc,                 \* "idle", or "fetched" while update_event is between get and update
    call,               \* the update_event call in progress (its arguments, what it fetched)
    last                \* the last completed call: what was asked, issued and returned
                        \* ([op |-> "none"] at the start and while a call is in progress)

vars == <<now, tokenFile, credentialsFile, calendar, pc, call, last>>

None == "None"

\* ------------------------------------------------------------------ bounds
\* The clock runs from 0 to MaxTime.  An access token is issued for
\* TokenLifetime instants and counts as expired RefreshThreshold instants early
\* (google-auth's REFRESH_THRESHOLD), both on the scale of that clock.  The
\* calendar holds at most MaxEvents events.
MaxTime == 3
TokenLifetime == 3
RefreshThreshold == 1
MaxEvents == 2

\* ------------------------------------------------------- credential store

\* google.oauth2.credentials.Credentials.from_authorized_user_info: the expiry is
\* read from the info when it is saved there, and the credential is auto-expired
\* (utcnow - REFRESH_THRESHOLD) when it is not.
from_authorized_user_info(info, t) ==
    [token         |-> info.token,
     refresh_token |-> info.refresh_token,
     expiry        |-> IF "expiry" \in DOMAIN info THEN info.expiry
                       ELSE t - RefreshThreshold]

\* Credentials.expired: utcnow() >= expiry - REFRESH_THRESHOLD.
expired(creds, t) == t >= creds.expiry - RefreshThreshold

\* Credentials.valid: token is not None and not expired (a token is always present here).
valid(creds, t) == ~expired(creds, t)

\* A refresh response that omits the refresh token.
refresh_dropping_omitted(creds, t, response_rt) ==
    [token |-> t + TokenLifetime, refresh_token |-> response_rt,
     expiry |-> t + TokenLifetime]

\* creds.refresh(Request()) when the token endpoint answers: a new access token and
\* expiry replace the old ones; the refresh token is replaced only by one the
\* response carries.
refresh(creds, t, response_rt) ==
    [token         |-> t + TokenLifetime,
     refresh_token |-> IF response_rt = None THEN creds.refresh_token ELSE response_rt,
     expiry        |-> t + TokenLifetime]

\* flow.run_local_server(port=0) when the user completes consent.
run_local_server(t, granted_rt) ==
    [token |-> t + TokenLifetime, refresh_token |-> granted_rt,
     expiry |-> t + TokenLifetime]

\* token_content: what is saved for the next run (token_uri, client_id,
\* client_secret and scopes are fixed and left out); the expiry is not among it.
token_content(creds) ==
    [token |-> creds.token, refresh_token |-> creds.refresh_token]

\* What the network answers during one call.
Nets ==
    [refresh_ok : BOOLEAN, refresh_rt : {None, "r2"},
     flow_ok : BOOLEAN, flow_rt : {None, "r1"}]

Raised(exc, file, nRefresh, nFlow) ==
    [raised |-> exc, creds |-> <<>>, file |-> file,
     refresh |-> nRefresh, flow |-> nFlow]

Returned(creds, file, nRefresh, nFlow) ==
    [raised |-> "", creds |-> <<creds>>, file |-> file,
     refresh |-> nRefresh, flow |-> nFlow]

\* get_credentials(): the outcome of one call at instant t with the token file
\* `file`, the client secrets present or not, and the network answering `net`.
\* refresh and flow count the calls made to the token endpoint and the
\* interactive authorization flows started.
get_credentials(file, secrets, t, net) ==
    LET creds == IF file # <<>> THEN <<from_authorized_user_info(file[1], t)>>
                 ELSE <<>>
    IN  IF creds # <<>> /\ valid(creds[1], t)
        THEN Returned(creds[1], file, 0, 0)
        ELSE IF creds # <<>> /\ expired(creds[1], t)
                             /\ creds[1].refresh_token # None
        THEN IF net.refresh_ok
             THEN LET c == refresh(creds[1], t, net.refresh_rt)
                  IN  Returned(c, <<token_content(c)>>, 1, 0)
             ELSE Raised("RefreshError", file, 1, 0)
        ELSE IF ~secrets
        THEN Raised("FileNotFoundError", file, 0, 0)
        ELSE IF net.flow_ok
        THEN LET c == run_local_server(t, net.flow_rt)
             IN  Returned(c, <<token_content(c)>>, 0, 1)
        ELSE Raised("AuthFlowError", file, 0, 1)

\* ----------------------------------------------------------- date resolver

\* Instants are counted in ticks, TicksPerDay to the day; a date is a day number.
TicksPerDay == 2

At(day, tick) == day * TicksPerDay + tick

\* The texts resolved: the empty string, punctuation only, a relative expression
\* only the natural-language parser reads, a weekday name both parsers read
\* differently (the most recent one against the coming one), two ISO dates both
\* read alike, and a compact timestamp only the strict parser reads.  Today is day
\* 15, at tick 1.
Texts == {"", "???", "tomorrow", "monday", "2024-03-14", "2024-03-15", "20240316T0930"}

\* dateparser.parse(text): <<instant>>, or <<>> for None.
dateparser_parse(text) ==
    CASE text = "tomorrow"   -> <<At(16, 1)>>
      [] text = "monday"     -> <<At(11, 0)>>
      [] text = "2024-03-14" -> <<At(14, 0)>>
      [] text = "2024-03-15" -> <<At(15, 0)>>
      [] OTHER               -> <<>>

\* dateutil.parser.parse(text): <<instant>>, or <<>> when it raises ParserError.
parse_date(text) ==
    CASE text = "monday"        -> <<At(18, 0)>>
      [] text = "2024-03-14"    -> <<At(14, 0)>>
      [] text = "2024-03-15"    -> <<At(15, 0)>>
      [] text = "20240316T0930" -> <<At(16, 1)>>
      [] OTHER                  -> <<>>

\* datetime.date(): the day of an instant.
date(instant) == instant \div TicksPerDay

\* datetime.combine(date, time.min) and datetime.combine(date, time.max).
combine_min(day) == At(day, 0)
combine_max(day) == At(day, TicksPerDay - 1)

Resolved(text, instant, consulted) ==
    [text |-> text, ok |-> TRUE, value |-> instant, consulted |-> consulted,
     error |-> "", named |-> ""]

\* A failed resolution: the exception, and the text its message names.
Unresolved(text, consulted, exc) ==
    [text |-> text, ok |-> FALSE, value |-> 0, consulted |-> consulted,
     error |-> exc, named |-> IF exc = "TypeError" THEN "" ELSE text]

\* The strict parser consulted first.
resolve_strict_first(text) ==
    IF text = None
    THEN Unresolved(text, <<"dateparser">>, "TypeError")
    ELSE IF parse_date(text) # <<>>
    THEN Resolved(text, parse_date(text)[1], <<"dateutil">>)
    ELSE IF dateparser_parse(text) # <<>>
    THEN Resolved(text, dateparser_parse(text)[1], <<"dateutil", "dateparser">>)
    ELSE Unresolved(text, <<"dateutil", "dateparser">>, "Unknown string format")

\* x = dateparser.parse(text); if not x: x = parse_date(text) -- the datetime
\* parsing of create_event and update_event, and the body of
\* parse_natural_language_date.  dateparser.parse(None) raises TypeError; a text
\* neither parser reads ends in dateutil's error, whose message carries the text.
resolve(text) ==
    IF text = None
    THEN Unresolved(text, <<"dateparser">>, "TypeError")
    ELSE IF dateparser_parse(text) # <<>>
    THEN Resolved(text, dateparser_parse(text)[1], <<"dateparser">>)
    ELSE IF parse_date(text) # <<>>
    THEN Resolved(text, parse_date(text)[1], <<"dateparser", "dateutil">>)
    ELSE Unresolved(text, <<"dateparser", "dateutil">>, "Unknown string format")

\* parse_natural_language_date(date_str): the date of what resolve finds, or
\* ValueError("Unknown string format: <date_str>").
parse_natural_language_date(date_str) ==
    LET r == resolve(date_str)
    IN  IF r.ok THEN [r EXCEPT !.value = date(r.value)] ELSE r

\* get_date_range(date_str): the whole day, or ValueError("Invalid date format: ...").
get_date_range(date_str) ==
    LET r == parse_natural_language_date(date_str)
    IN  [ok |-> r.ok, start |-> IF r.ok THEN combine_min(r.value) ELSE 0,
         end |-> IF r.ok THEN combine_max(r.value) ELSE 0, resolved |-> <<r>>]

\* ------------------------------------------------------- calendar backend

\* The event the calendar holds at the start.
RemoteEvent ==
    [summary     |-> "S1",
     start       |-> [dateTime |-> At(14, 0), timeZone |-> "Europe/Paris"],
     end         |-> [dateTime |-> At(14, 1), timeZone |-> "Europe/Paris"],
     description |-> "D1",
     location    |-> "L1",
     attendees   |-> <<"a">>]

\* An event id is the event's position in the calendar; 0 is the id of no event.
InitCalendar == <<RemoteEvent>>

\* events().list(timeMin, timeMax): the ids of the events overlapping the range.
events_list(cal, timeMin, timeMax) ==
    {id \in DOMAIN cal : cal[id].start.dateTime <= timeMax
                         /\ cal[id].end.dateTime >= timeMin}

\* events().insert(body): the calendar with the event stored under a new id.
events_insert(cal, body) == Append(cal, body)

\* ------------------------------------------------------ caller-facing text

\* A truthy Python string: neither None nor empty.
Truthy(s) == s # None /\ s # ""

\* The handler lets the exception out.
error_text_reraised(prefix, detail) ==
    [kind |-> "raise", prefix |-> prefix, detail |-> detail]

\* except Exception as e: return f"<prefix>: {str(e)}" -- and the early returns of
\* the same shape.
error_text(prefix, detail) ==
    [kind |-> "text", prefix |-> prefix, detail |-> detail]

\* A returned listing or confirmation.
text(prefix, detail) == [kind |-> "text", prefix |-> prefix, detail |-> detail]

\* format_events(events): the sentinel for no events, a listing otherwise.
format_events(items) ==
    IF items = {} THEN "No events found." ELSE "Event: ... Time: ... Attendees: ..."

\* What one call did: the text returned, the requests issued to the calendar
\* backend, the date resolutions made, and the calendar afterwards.
Outcome(result, requests, resolved, cal) ==
    [result |-> result, requests |-> requests, resolved |-> resolved, cal |-> cal]

\* ------------------------------------------------------------ list / query

\* get_events_resource(date), once get_calendar_service has answered `cred`.
get_events_resource(date_str, cred, backend_ok, cal) ==
    LET prefix == "Error retrieving calendar events"
        range == get_date_range(date_str)
        req == [verb |-> "list", timeMin |-> range.start, timeMax |-> range.end]
    IN  IF cred.raised # ""
        THEN Outcome(error_text(prefix, cred.raised), <<>>, <<>>, cal)
        ELSE IF ~range.ok
        THEN Outcome(error_text(prefix, "Invalid date format"), <<>>,
                     range.resolved, cal)
        ELSE IF ~backend_ok
        THEN Outcome(error_text(prefix, "HttpError"), <<req>>, range.resolved, cal)
        ELSE Outcome(text("events", format_events(
                              events_list(cal, range.start, range.end))),
                     <<req>>, range.resolved, cal)

\* list_events(date_start, date_end), once get_calendar_service has answered `cred`.
list_events(date_start, date_end, cred, backend_ok, cal) ==
    LET prefix == "Error listing calendar events"
        s == parse_natural_language_date(date_start)
        e == parse_natural_language_date(date_end)
        start_time == combine_min(s.value)
        end_time == IF Truthy(date_end) THEN combine_max(e.value)
                    ELSE combine_max(s.value)
        resolved == IF Truthy(date_end) THEN <<s, e>> ELSE <<s>>
        req == [verb |-> "list", timeMin |-> start_time, timeMax |-> end_time]
    IN  IF cred.raised # ""
        THEN Outcome(error_text(prefix, cred.raised), <<>>, <<>>, cal)
        ELSE IF ~s.ok
        THEN Outcome(error_text(prefix, s.error), <<>>, <<s>>, cal)
        ELSE IF Truthy(date_end) /\ ~e.ok
        THEN Outcome(error_text("Error parsing end date", e.error), <<>>,
                     <<s, e>>, cal)
        ELSE IF ~backend_ok
        THEN Outcome(error_text(prefix, "HttpError"), <<req>>, resolved, cal)
        ELSE Outcome(text("events", format_events(
                              events_list(cal, start_time, end_time))),
                     <<req>>, resolved, cal)

\* ------------------------------------------------------------ create_event

\* An attendee string is a sequence of characters: an address character, a
\* blank or a comma; the optional argument is <<>> (None) or <<string>>.
MaxAttendeeLen == 2
AttendeeChars == {"a", " ", ","}
AttendeeStrings == UNION {[1..n -> AttendeeChars] : n \in 0..MaxAttendeeLen}

\* The index of the first comma of s, or 0.
FirstComma(s) ==
    IF \E i \in 1..Len(s) : s[i] = ","
    THEN CHOOSE i \in 1..Len(s) : s[i] = "," /\ \A j \in 1..(i - 1) : s[j] # ","
    ELSE 0

\* str.split(','): the segments between the commas, empty ones included.
RECURSIVE split(_)
split(s) ==
    IF FirstComma(s) = 0 THEN <<s>>
    ELSE <<SubSeq(s, 1, FirstComma(s) - 1)>>
         \o split(SubSeq(s, FirstComma(s) + 1, Len(s)))

\* str.strip(): without the leading and trailing blanks.
RECURSIVE strip(_)
strip(s) ==
    IF s = <<>> THEN s
    ELSE IF s[1] = " " THEN strip(Tail(s))
    ELSE IF s[Len(s)] = " " THEN strip(SubSeq(s, 1, Len(s) - 1))
    ELSE s

\* [email.strip() for email in attendees.split(',')]
attendee_emails(attendees) ==
    [i \in 1..Len(split(attendees)) |-> strip(split(attendees)[i])]

\* event_body of create_event.  A key the code leaves out is None (description,
\* location) or the empty list (attendees).
create_body(args, start_dt, end_dt) ==
    [summary     |-> args.summary,
     start       |-> [dateTime |-> start_dt, timeZone |-> "UTC"],
     end         |-> [dateTime |-> end_dt, timeZone |-> "UTC"],
     description |-> IF Truthy(args.description) THEN args.description ELSE None,
     location    |-> IF Truthy(args.location) THEN args.location ELSE None,
     attendees   |-> IF args.attendees # <<>> /\ args.attendees[1] # <<>>
                     THEN attendee_emails(args.attendees[1]) ELSE <<>>]

\* create_event(...), once get_calendar_service has answered `cred`.  The end is
\* parsed only when the start was.
create_event(args, cred, backend_ok, cal) ==
    LET prefix == "Error creating event"
        s == resolve(args.start_datetime)
        e == resolve(args.end_datetime)
        body == create_body(args, s.value, e.value)
        req == [verb |-> "insert", body |-> body]
    IN  IF cred.raised # ""
        THEN Outcome(error_text(prefix, cred.raised), <<>>, <<>>, cal)
        ELSE IF ~s.ok
        THEN Outcome(error_text("Error parsing event dates", s.error), <<>>,
                     <<s>>, cal)
        ELSE IF ~e.ok
        THEN Outcome(error_text("Error parsing event dates", e.error), <<>>,
                     <<s, e>>, cal)
        ELSE IF ~backend_ok
        THEN Outcome(error_text(prefix, "HttpError"), <<req>>, <<s, e>>, cal)
        ELSE Outcome(text("Event created successfully!", "e"), <<req>>, <<s, e>>,
                     events_insert(cal, body))

\* ------------------------------------------------------------ update_event

\* The body rebuilt from the arguments alone, as create_event builds it.
update_merge_rebuilt(event, args) ==
    LET s == resolve(args.start_datetime)
        e == resolve(args.end_datetime)
    IN  [ok |-> (Truthy(args.start_datetime) => s.ok)
                /\ (Truthy(args.end_datetime) => e.ok),
         error |-> "Error parsing start date",
         resolved |-> <<>>,
         body |-> [summary     |-> IF Truthy(args.summary) THEN args.summary
                                   ELSE event.summary,
                   start       |-> IF Truthy(args.start_datetime)
                                   THEN [dateTime |-> s.value, timeZone |-> "UTC"]
                                   ELSE event.start,
                   end         |-> IF Truthy(args.end_datetime)
                                   THEN [dateTime |-> e.value, timeZone |-> "UTC"]
                                   ELSE event.end,
                   description |-> IF Truthy(args.description) THEN args.description
                                   ELSE None,
                   location    |-> IF Truthy(args.location) THEN args.location
                                   ELSE None,
                   attendees   |-> <<>>]]

\* Lines 406-445 of update_event: the fetched event with each truthy argument
\* written over its field; a start or end that does not parse ends the call with
\* an error text before anything is written back.
update_merge(event, args) ==
    LET s == resolve(args.start_datetime)
        e == resolve(args.end_datetime)
        e1 == IF Truthy(args.summary) THEN [event EXCEPT !.summary = args.summary]
              ELSE event
        e2 == IF Truthy(args.start_datetime)
              THEN [e1 EXCEPT !.start = [dateTime |-> s.value, timeZone |-> "UTC"]]
              ELSE e1
        e3 == IF Truthy(args.end_datetime)
              THEN [e2 EXCEPT !.end = [dateTime |-> e.value, timeZone |-> "UTC"]]
              ELSE e2
        e4 == IF Truthy(args.description)
              THEN [e3 EXCEPT !.description = args.description] ELSE e3
        e5 == IF Truthy(args.location)
              THEN [e4 EXCEPT !.location = args.location] ELSE e4
    IN  IF Truthy(args.start_datetime) /\ ~s.ok
        THEN [ok |-> FALSE, error |-> "Error parsing start date",
              resolved |-> <<s>>, body |-> event]
        ELSE IF Truthy(args.end_datetime) /\ ~e.ok
        THEN [ok |-> FALSE, error |-> "Error parsing end date",
              resolved |-> (IF Truthy(args.start_datetime) THEN <<s>> ELSE <<>>)
                           \o <<e>>,
              body |-> event]
        ELSE [ok |-> TRUE, error |-> "",
              resolved |-> (IF Truthy(args.start_datetime) THEN <<s>> ELSE <<>>)
                           \o (IF Truthy(args.end_datetime) THEN <<e>> ELSE <<>>),
              body |-> e5]

\* The write-back sent as a patch of the supplied fields onto the stored event.
write_back_patched(cal, id, fetched, args) ==
    [cal EXCEPT ![id] = update_merge(cal[id], args).body]

\* events().update(eventId=event_id, body=event): the stored event is replaced
\* by the merged copy of the one fetched; nothing compares it with what is stored.
write_back(cal, id, fetched, args) ==
    [cal EXCEPT ![id] = update_merge(fetched, args).body]

\* ---------------------------------------------------------------- actions

\* The network answering every call, and answering none.
NetUp == [refresh_ok |-> TRUE, refresh_rt |-> None, flow_ok |-> TRUE, flow_rt |-> "r1"]
NetDown == [refresh_ok |-> FALSE, refresh_rt |-> None, flow_ok |-> FALSE, flow_rt |-> "r1"]

\* The record kept of a completed caller-facing operation.
Completed(op, args, cred, out) ==
    [op |-> op, args |-> args, t |-> now, pre |-> tokenFile, cred |-> cred,
     result |-> out.result, requests |-> out.requests, resolved |-> out.resolved,
     events |-> Len(out.cal) - Len(calendar)]

\* Time passes.
Tick ==
    /\ pc = "idle"
    /\ now < MaxTime
    /\ now' = now + 1
    /\ UNCHANGED <<tokenFile, credentialsFile, calendar, pc, call, last>>

\* One call of get_credentials() (as made by get_calendar_service).
GetCredentials ==
    /\ pc = "idle"
    /\ \E net \in Nets :
         LET out == get_credentials(tokenFile, credentialsFile, now, net)
         IN  /\ tokenFile' = out.file
             /\ last' = [op |-> "get_credentials", pre |-> tokenFile, t |-> now,
                         cred |-> out, refresh_ok |-> net.refresh_ok,
                         response_rt |-> net.refresh_rt]
    /\ UNCHANGED <<now, credentialsFile, calendar, pc, call>>

\* The resource calendar://events/{date}, for the dates, network answers and
\* backend answers given.
GetEventsResourceOn(dates, nets, backends) ==
    /\ pc = "idle"
    /\ \E d \in dates, net \in nets, backend_ok \in backends :
         LET cred == get_credentials(tokenFile, credentialsFile, now, net)
             out == get_events_resource(d, cred, backend_ok, calendar)
         IN  /\ tokenFile' = cred.file
             /\ calendar' = out.cal
             /\ last' = Completed("get_events_resource", [date |-> d], cred, out)
    /\ UNCHANGED <<now, credentialsFile, pc, call>>

\* The tool list_events.
ListEventsOn(inputs, nets, backends) ==
    /\ pc = "idle"
    /\ \E args \in inputs, net \in nets, backend_ok \in backends :
         LET cred == get_credentials(tokenFile, credentialsFile, now, net)
             out == list_events(args.date_start, args.date_end, cred, backend_ok,
                                calendar)
         IN  /\ tokenFile' = cred.file
             /\ calendar' = out.cal
             /\ last' = Completed("list_events", args, cred, out)
    /\ UNCHANGED <<now, credentialsFile, pc, call>>

\* The tool create_event, while the calendar has room.
CreateEventOn(inputs, nets, backends) ==
    /\ pc = "idle"
    /\ Len(calendar) < MaxEvents
    /\ \E args \in inputs, net \in nets, backend_ok \in backends :
         LET cred == get_credentials(tokenFile, credentialsFile, now, net)
             out == create_event(args, cred, backend_ok, calendar)
         IN  /\ tokenFile' = cred.file
             /\ calendar' = out.cal
             /\ last' = Completed("create_event", args, cred, out)
    /\ UNCHANGED <<now, credentialsFile, pc, call>>

\* The tool update_event, up to and including its fetch of the existing event
\* (lines 399-404): the call ends here when the credentials or the fetch fail,
\* and otherwise goes on holding the fetched copy.
UpdateEventFetchOn(inputs, nets, backends) ==
    /\ pc = "idle"
    /\ \E args \in inputs, net \in nets, backend_ok \in backends :
         LET cred == get_credentials(tokenFile, credentialsFile, now, net)
             prefix == "Error updating event"
             id == args.event_id
             get == [verb |-> "get", eventId |-> id]
             none == [summary |-> None]
             failed(detail, requests) ==
                 Completed("update_event", args, cred,
                           Outcome(error_text(prefix, detail), requests, <<>>,
                                   calendar))
                 @@ [fetched |-> none, stored_before |-> none, stored |-> none,
                     answered |-> FALSE]
         IN  /\ tokenFile' = cred.file
             /\ IF cred.raised # ""
                THEN /\ last' = failed(cred.raised, <<>>)
                     /\ UNCHANGED <<pc, call>>
                ELSE IF ~backend_ok \/ id \notin DOMAIN calendar
                THEN /\ last' = failed("HttpError", <<get>>)
                     /\ UNCHANGED <<pc, call>>
                ELSE /\ pc' = "fetched"
                     /\ call' = <<[args |-> args, t |-> now, pre |-> tokenFile,
                                   cred |-> cred, fetched |-> calendar[id]]>>
                     /\ last' = [op |-> "none"]
    /\ UNCHANGED <<now, credentialsFile, calendar>>

\* update_event from its merge to its return (lines 406-457).
UpdateEventWriteOn(backends) ==
    /\ pc = "fetched"
    /\ \E backend_ok \in backends :
         LET c == call[1]
             id == c.args.event_id
             m == update_merge(c.fetched, c.args)
             prefix == "Error updating event"
             get == [verb |-> "get", eventId |-> id]
             put == [verb |-> "update", eventId |-> id, body |-> m.body]
             out == IF ~m.ok
                    THEN Outcome(error_text(m.error, "Unknown string format"),
                                 <<get>>, m.resolved, calendar)
                    ELSE IF ~backend_ok
                    THEN Outcome(error_text(prefix, "HttpError"), <<get, put>>,
                                 m.resolved, calendar)
                    ELSE Outcome(text("Event updated successfully!", "e"),
                                 <<get, put>>, m.resolved,
                                 write_back(calendar, id, c.fetched, c.args))
         IN  /\ calendar' = out.cal
             /\ last' = [op |-> "update_event", args |-> c.args, t |-> c.t,
                         pre |-> c.pre, cred |-> c.cred, result |-> out.result,
                         requests |-> out.requests, resolved |-> out.resolved,
                         events |-> 0, fetched |-> c.fetched,
                         stored_before |-> calendar[id], stored |-> out.cal[id],
                         answered |-> m.ok /\ backend_ok]
    /\ pc' = "idle"
    /\ call' = <<>>
    /\ UNCHANGED <<now, tokenFile, credentialsFile>>

\* Another client of the calendar rewrites two fields of the event while
\* update_event holds its fetched copy.
ExternalWrite ==
    /\ pc = "fetched"
    /\ LET id == call[1].args.event_id
       IN  calendar' = [calendar EXCEPT ![id].description = "X",
                                        ![id].attendees = <<"z">>]
    /\ UNCHANGED <<now, tokenFile, credentialsFile, pc, call, last>>

\* ----------------------------------------------------------- initial states

\* Token files left by an earlier run of a program that saves the expiry: one
\* already expired at the start, one valid for a while.
StoredCredential(e, r) == <<[token |-> e, refresh_token |-> r, expiry |-> e]>>

InitTokenFiles ==
    {<<>>} \cup {StoredCredential(e, r) : e \in {1, MaxTime}, r \in {None, "r1"}}

InitWith(files, secrets) ==
    /\ now = 0
    /\ tokenFile \in files
    /\ credentialsFile \in secrets
    /\ calendar = InitCalendar
    /\ pc = "idle"
    /\ call = <<>>
    /\ last = [op |-> "none"]

\* ----------------------------------------------------------- specifications

\* The credential store over time, from every stored credential.
Init == InitWith(InitTokenFiles, BOOLEAN)

NextCred == Tick \/ GetCredentials

SpecCred == Init /\ [][NextCred]_vars

\* The four caller-facing operations, each with arguments that parse and
\* arguments that do not, an event that exists and one that does not, the
\* network and the backend answering or failing, from every stored credential.
Nothing == [description |-> None, location |-> None, attendees |-> <<>>]

GetEventsResource == GetEventsResourceOn({"???", "2024-03-14"}, {NetUp, NetDown}, BOOLEAN)

ListEvents ==
    ListEventsOn([date_start : {"???", "2024-03-14"}, date_end : {None, "???"}],
                 {NetUp, NetDown}, BOOLEAN)

CreateEvent ==
    CreateEventOn({[summary |-> "S2", start_datetime |-> st, end_datetime |-> en]
                       @@ Nothing :
                   st \in {"???", "2024-03-14"}, en \in {None, "2024-03-15"}},
                  {NetUp, NetDown}, BOOLEAN)

UpdateEventFetch ==
    UpdateEventFetchOn(
        [event_id : {0, 1}, summary : {"S2"}, start_datetime : {None, "???"},
         end_datetime : {None, "???"}, description : {None}, location : {None}],
        {NetUp, NetDown}, BOOLEAN)

UpdateEventWrite == UpdateEventWriteOn(BOOLEAN)

Next ==
    \/ GetEventsResource
    \/ ListEvents
    \/ CreateEvent
    \/ UpdateEventFetch
    \/ UpdateEventWrite

Spec == Init /\ [][Next]_vars

\* The date ranges asked of the backend, with a credential that is valid.
InitValid == InitWith({StoredCredential(MaxTime, "r1")}, {TRUE})

ResourceRanges == GetEventsResourceOn(Texts, {NetUp}, BOOLEAN)

ListRanges ==
    ListEventsOn([date_start : Texts, date_end : Texts \cup {None}], {NetUp}, BOOLEAN)

NextDates == ResourceRanges \/ ListRanges

SpecDates == InitValid /\ [][NextDates]_vars

\* create_event over its drafts, with a stored credential that is valid or one
\* that is expired and refreshable.  The attendee string varies with the other
\* arguments at plain values, and the other arguments with no attendees.
CreateArgs ==
    [summary : {"S2"}, start_datetime : {"2024-03-14"}, end_datetime : {"2024-03-15"},
     description : {None}, location : {None},
     attendees : {<<>>} \cup {<<a>> : a \in AttendeeStrings}]
    \cup
    [summary : {"S2"}, start_datetime : {"???", "tomorrow"},
     end_datetime : {None, "", "???", "monday"},
     description : {None, "", "D2"}, location : {None, "L2"},
     attendees : {<<>>}]

InitCreate ==
    InitWith({StoredCredential(1, "r1"), StoredCredential(MaxTime, "r1")}, {TRUE})

CreateDrafts == CreateEventOn(CreateArgs, {NetUp, NetDown}, BOOLEAN)

NextCreate == CreateDrafts

SpecCreate == InitCreate /\ [][NextCreate]_vars

\* update_event over every subset of its optional arguments, with empty and
\* unparseable ones, beside another client of the calendar.
UpdateArgs ==
    [event_id : {1}, summary : {None, "S2"}, start_datetime : {None, "tomorrow"},
     end_datetime : {None, "monday"}, description : {None, "D2"},
     location : {None, "L2"}]
    \cup
    [event_id : {0, 1}, summary : {""}, start_datetime : {"", "???"},
     end_datetime : {"???"}, description : {None}, location : {""}]

UpdateSubsetsFetch == UpdateEventFetchOn(UpdateArgs, {NetUp}, {TRUE})

UpdateSubsetsWrite == UpdateEventWriteOn(BOOLEAN)

NextUpdate == UpdateSubsetsFetch \/ UpdateSubsetsWrite \/ ExternalWrite

SpecUpdate == InitValid /\ [][NextUpdate]_vars

\* Every text resolved by parse_natural_language_date (in list_events) and by
\* the datetime parsing of create_event and update_event.
ListResolving ==
    ListEventsOn([date_start : Texts, date_end : {None}], {NetUp}, {TRUE})

CreateResolving ==
    CreateEventOn({[summary |-> "S2", start_datetime |-> st, end_datetime |-> en]
                       @@ Nothing :
                   st \in Texts, en \in {"2024-03-15"}}
                  \cup
                  {[summary |-> "S2", start_datetime |-> st, end_datetime |-> en]
                       @@ Nothing :
                   st \in {"2024-03-14"}, en \in Texts \cup {None}},
                  {NetUp}, {TRUE})

UpdateResolvingFetch ==
    UpdateEventFetchOn(
        [event_id : {1}, summary : {None}, start_datetime : Texts \cup {None},
         end_datetime : {None}, description : {None}, location : {None}]
        \cup
        [event_id : {1}, summary : {None}, start_datetime : {None, "???"},
         end_datetime : Texts, description : {None}, location : {None}],
        {NetUp}, {TRUE})

UpdateResolvingWrite == UpdateEventWriteOn({TRUE})

NextResolve ==
    \/ ListResolving
    \/ CreateResolving
    \/ UpdateResolvingFetch
    \/ UpdateResolvingWrite

SpecResolve == InitValid /\ [][NextResolve]_vars

\* ------------------------------------------------ credential store: claims

\* The access token of a stored credential is still honoured at t, with the
\* safety margin: its expiry lies in the future.
StoredValid(info, t) == t < info.token - RefreshThreshold

\* C3: for every stored credential that is valid with its expiry in the future,
\* get_credentials returns the stored credential unchanged and makes no network
\* call (no token refresh, no interactive flow), also when the stored credential
\* is one an earlier call refreshed or created and then persisted.
C3_ValidStoredNoNetwork ==
    (/\ last.op = "get_credentials"
     /\ last.pre # <<>>
     /\ StoredValid(last.pre[1], last.t))
    => /\ last.cred.refresh = 0
       /\ last.cred.flow = 0
       /\ last.cred.raised = ""
       /\ last.cred.creds[1].token = last.pre[1].token
       /\ last.cred.creds[1].refresh_token = last.pre[1].refresh_token
       /\ tokenFile = last.pre

\* C4: for every stored credential that is expired and has a refresh token,
\* get_credentials makes exactly one refresh call (and starts no interactive
\* flow), and when the refresh response omits the refresh token the credential
\* returned and the one persisted keep the original refresh token.
C4_OneRefreshKeepsRefreshToken ==
    (/\ last.op = "get_credentials"
     /\ last.pre # <<>>
     /\ ~StoredValid(last.pre[1], last.t)
     /\ last.pre[1].refresh_token # None)
    => /\ last.cred.refresh = 1
       /\ last.cred.flow = 0
       /\ (last.cred.raised = "" /\ last.response_rt = None)
            => /\ last.cred.creds[1].refresh_token = last.pre[1].refresh_token
               /\ tokenFile # <<>>
               /\ tokenFile[1].refresh_token = last.pre[1].refresh_token
               /\ tokenFile[1].token = last.cred.creds[1].token

\* An expired refreshable credential was refreshed, the response omitted the
\* refresh token, and the original one was kept and persisted.
C4_Witness ==
    /\ last.op = "get_credentials"
    /\ last.pre # <<>>
    /\ ~StoredValid(last.pre[1], last.t)
    /\ last.pre[1].refresh_token = "r1"
    /\ last.cred.refresh = 1
    /\ last.cred.raised = ""
    /\ last.response_rt = None
    /\ tokenFile[1].refresh_token = "r1"
    /\ tokenFile[1].token # last.pre[1].token

\* C5: when the refresh of an expired refreshable credential fails, the same call
\* goes on to one interactive authorization attempt, and fails only if that
\* attempt fails too, with the authorization-flow error.
C5_FailedRefreshFallsThroughToFlow ==
    (/\ last.op = "get_credentials"
     /\ last.cred.refresh = 1
     /\ ~last.refresh_ok)
    => /\ last.cred.flow = 1
       /\ last.cred.raised \in {"", "AuthFlowError"}

\* ------------------------------------------------- operations: claims

CallerOps == {"get_events_resource", "list_events", "create_event", "update_event"}

\* C1: every caller-facing operation returns a text, whatever the input and
\* whether the credentials, the date parsing or the backend fail: nothing is
\* raised to the transport layer.
C1_OperationsReturnText ==
    last.op \in CallerOps => last.result.kind = "text"

\* update_event ended on a failed token refresh and returned its error text.
C1_Witness ==
    /\ last.op = "update_event"
    /\ last.cred.raised = "RefreshError"
    /\ last.result.kind = "text"
    /\ last.result.prefix = "Error updating event"

\* C2: the body update_event writes back differs from the fetched event only in
\* the fields supplied: every field whose argument is absent, and the attendee
\* list, carries the fetched value.
C2_UpdateFrame ==
    (last.op = "update_event" /\ Len(last.requests) = 2)
    => LET body == last.requests[2].body
           f == last.fetched
           a == last.args
       IN  /\ last.requests[2].verb = "update"
           /\ a.summary = None => body.summary = f.summary
           /\ a.start_datetime = None => body.start = f.start
           /\ a.end_datetime = None => body.end = f.end
           /\ a.description = None => body.description = f.description
           /\ a.location = None => body.location = f.location
           /\ body.attendees = f.attendees

\* update_event was given a location only: the body carries the new location
\* and the fetched summary, start, end, description and attendees.
C2_Witness ==
    /\ last.op = "update_event"
    /\ Len(last.requests) = 2
    /\ last.args.summary = None
    /\ last.args.start_datetime = None
    /\ last.args.end_datetime = None
    /\ last.args.description = None
    /\ last.args.location = "L2"
    /\ last.fetched.location = "L1"
    /\ last.requests[2].body = [last.fetched EXCEPT !.location = "L2"]

\* C6: create_event with a missing end (absent, empty or unparseable) fails with
\* a validation error and issues no request of any kind: no credential or
\* service acquisition traffic, no insert, and no event is created.
C6_MissingEndIssuesNoRequest ==
    (last.op = "create_event" /\ ~resolve(last.args.end_datetime).ok)
    => /\ last.result.prefix = "Error parsing event dates"
       /\ last.requests = <<>>
       /\ last.cred.refresh = 0
       /\ last.cred.flow = 0
       /\ last.events = 0

\* C7: every date range sent to the backend has timeMin <= timeMax, for
\* get_events_resource and for list_events with any parseable pair of dates.
C7_RangesOrdered ==
    last.op \in {"get_events_resource", "list_events"}
    => \A i \in 1..Len(last.requests) :
           last.requests[i].timeMin <= last.requests[i].timeMax

\* An attendee string with a segment that is empty once trimmed.
HasEmptySegment(s) == \E k \in 1..Len(split(s)) : strip(split(s)[k]) = <<>>

\* C8: every email of the attendee list create_event sends is trimmed and
\* non-empty, and a non-empty attendee string with a segment that is empty after
\* trimming is rejected instead of being sent.
C8_AttendeesTrimmedNonEmpty ==
    (/\ last.op = "create_event"
     /\ last.args.attendees # <<>>
     /\ last.args.attendees[1] # <<>>)
    => /\ \A i \in 1..Len(last.requests) :
              \A k \in 1..Len(last.requests[i].body.attendees) :
                  LET email == last.requests[i].body.attendees[k]
                  IN  email # <<>> /\ email[1] # " " /\ email[Len(email)] # " "
       /\ HasEmptySegment(last.args.attendees[1])
            => last.requests = <<>> /\ last.events = 0

\* What a resolution of the last call must be, with `day` telling whether the
\* call keeps the date only: the natural-language parser's reading when it has
\* one, else the strict parser's, consulted second; else an error naming the text.
InOrder(r, day) ==
    LET nl == dateparser_parse(r.text)
        st == parse_date(r.text)
        of(instant) == IF day THEN date(instant) ELSE instant
    IN  /\ r.consulted[1] = "dateparser"
        /\ nl # <<>> => r.ok /\ r.value = of(nl[1]) /\ r.consulted = <<"dateparser">>
        /\ (nl = <<>> /\ st # <<>>)
             => r.ok /\ r.value = of(st[1])
                     /\ r.consulted = <<"dateparser", "dateutil">>
        /\ (nl = <<>> /\ st = <<>>)
             => ~r.ok /\ r.named = r.text
                      /\ r.consulted = <<"dateparser", "dateutil">>

\* C9: every text resolved by parse_natural_language_date, create_event or
\* update_event goes to the natural-language parser first, whose result is used
\* when there is one; the strict parser is consulted only otherwise; when both
\* fail the call ends in a date-parse error naming the text, having sent nothing.
C9_ParsersInOrder ==
    last.op \in {"list_events", "create_event", "update_event"}
    => \A i \in 1..Len(last.resolved) :
           LET r == last.resolved[i]
           IN  r.text # None
               => /\ InOrder(r, last.op = "list_events")
                  /\ ~r.ok => /\ last.result.detail = "Unknown string format"
                              /\ \A k \in 1..Len(last.requests) :
                                     last.requests[k].verb = "get"

\* update_event resolved a weekday name, which the two parsers read differently,
\* to the natural-language parser's reading.
C9_Witness ==
    /\ last.op = "update_event"
    /\ Len(last.requests) = 2
    /\ last.args.end_datetime = "monday"
    /\ last.requests[2].body.end.dateTime = dateparser_parse("monday")[1]
    /\ dateparser_parse("monday") # parse_date("monday")

\* C10: update_event's write-back carries no check against what is stored: when
\* the backend answers it succeeds, and the stored event becomes the merge of the
\* fetched copy with the supplied fields, whatever another client wrote in
\* between, also on fields update_event was not asked to change.
C10_LastWriterWins ==
    (last.op = "update_event" /\ last.answered)
    => /\ last.result.prefix = "Event updated successfully!"
       /\ last.stored = update_merge(last.fetched, last.args).body
       /\ last.stored.attendees = last.fetched.attendees
       /\ last.args.description = None
            => last.stored.description = last.fetched.description

\* Another client rewrote the description and the attendees after the fetch;
\* update_event, asked for neither, wrote the fetched ones back over them.
C10_Witness ==
    /\ last.op = "update_event"
    /\ last.answered
    /\ last.args.description = None
    /\ last.stored_before.description = "X"
    /\ last.stored_before.attendees = <<"z">>
    /\ last.fetched.description = "D1"
    /\ last.stored.description = "D1"
    /\ last.stored.attendees = <<"a">>
    /\ calendar[last.args.event_id] = last.stored

====
